---- MODULE Spec2Model ----
(***************************************************************************)
(* Quota-aware generation orchestrator of codenex-images-api.              *)
(*                                                                         *)
(* The persisted users collection (db) is the only state shared by         *)
(* requests.  Every handler works on its own copy of the user document     *)
(* (the Mongoose document returned by User.findOne) and writes back only   *)
(* the paths it modified (Document.save sends a $set of modified paths).   *)
(* A generate/edit request is split at its awaits on the outside world:    *)
(* the provider call, the record creation and the final save.  The short   *)
(* handlers of the user controller (findOne directly followed by save)     *)
(* are single steps.  Accounts interact only through the bulk reset, which *)
(* treats each document on its own, so one subject is modelled.            *)
(***************************************************************************)
EXTENDS Integers, FiniteSets, Sequences, TLC

\* ---------------------------------------------------------------- bounds
MaxDay     == 1      \* calendar days after day 0
MaxRecords == 5      \* generation records per subject

\* ------------------------------------------------------ program constants
DailyLimit == 2      \* free-tier generations per day

Users   == {1}       \* subjects (auth0Id values)
Reqs    == {1, 2}    \* request handlers that can be in flight at once
Keys    == {1}       \* plaintext credentials a user may submit
Days    == 0..MaxDay

NoDate == -1         \* lastGenerationDate absent / null
Null   == 0          \* a null plaintext key
Shared == 0          \* the provider client was built with the default key

\* geminiApiKey as stored: null, or the ciphertext of plaintext k; cur tells
\* whether it was encrypted under the ENCRYPTION_SECRET now in force
NoKey == [k |-> Null, cur |-> FALSE]

VARIABLES
  db,        \* users collection: auth0Id -> stored document
  gens,      \* generations collection: auth0Id -> number of records
  req,       \* request handlers: position and local user document
  last,      \* the result of the response sent most recently
  today,     \* the calendar day the server clock shows
  clean,     \* history: no resetAll and no day change so far
  deleted,   \* history: an account was deleted (while clean)
  sharedDone,\* history: Completed free-tier requests per subject (while clean)
  maxFlight  \* history: most generate/edit requests in flight at once (while clean)

vars == <<db, gens, req, last, today, clean, deleted, sharedDone, maxFlight>>

\* ------------------------------------------------------------ user model
\* userSchema defaults
NewUser ==
  [exists |-> TRUE, key |-> NoKey, hasApiKey |-> FALSE,
   dailyGenerationCount |-> 0, lastGenerationDate |-> NoDate,
   generationCount |-> 0]

\* no document for this auth0Id
Absent == [NewUser EXCEPT !.exists = FALSE]

\* pre('save') hook, branch for a truthy geminiApiKey: iv:ciphertext
Encrypt(k) == [k |-> k, cur |-> TRUE]

\* getDecryptedApiKey: null for a null key and for any decryption failure
getDecryptedApiKey(doc) ==
  IF doc.key = NoKey THEN Null
  ELSE IF ~doc.key.cur THEN Null
  ELSE doc.key.k

\* getTodayGenerations: the stored count only if the last generation was today
getTodayGenerations(doc, now) ==
  IF doc.lastGenerationDate = NoDate \/ doc.lastGenerationDate # now
  THEN 0
  ELSE doc.dailyGenerationCount

\* mutant: the free-tier test lets a user at the limit through (> for >=)
QuotaExceededOffByOne(doc, now) ==
  ~doc.hasApiKey /\ getTodayGenerations(doc, now) > DailyLimit

\* the free-tier test of generateImage / editImage
QuotaExceeded(doc, now) ==
  ~doc.hasApiKey /\ getTodayGenerations(doc, now) >= DailyLimit

\* GeminiService.getGenAI: the custom key if non-empty, else the default key
getGenAI(customApiKey) ==
  IF customApiKey # Null THEN customApiKey ELSE Shared

\* userApiKey as the controllers compute it
ResolveKey(doc) ==
  IF doc.hasApiKey THEN getDecryptedApiKey(doc) ELSE Null

\* mutant: incrementGeneration forgets the lifetime counter
incrementGenerationDailyOnly(doc, now) ==
  [doc EXCEPT
     !.dailyGenerationCount =
        IF doc.lastGenerationDate = NoDate \/ doc.lastGenerationDate # now
        THEN 1 ELSE doc.dailyGenerationCount + 1,
     !.lastGenerationDate = now]

\* mutant: incrementGeneration without the new-day branch
incrementGenerationNoRollover(doc, now) ==
  [doc EXCEPT
     !.dailyGenerationCount = doc.dailyGenerationCount + 1,
     !.generationCount = doc.generationCount + 1,
     !.lastGenerationDate = now]

\* incrementGeneration on a local document, at clock day now
incrementGeneration(doc, now) ==
  [doc EXCEPT
     !.dailyGenerationCount =
        IF doc.lastGenerationDate = NoDate \/ doc.lastGenerationDate # now
        THEN 1 ELSE doc.dailyGenerationCount + 1,
     !.generationCount = doc.generationCount + 1,
     !.lastGenerationDate = now]

\* Document.save after incrementGeneration: $set of the modified paths.
\* lastGenerationDate is a fresh Date and generationCount grew, so both are
\* always written; dailyGenerationCount only if its value changed.
SaveIncrement(stored, old, new) ==
  [stored EXCEPT
     !.dailyGenerationCount =
        IF new.dailyGenerationCount # old.dailyGenerationCount
        THEN new.dailyGenerationCount ELSE stored.dailyGenerationCount,
     !.generationCount = new.generationCount,
     !.lastGenerationDate = new.lastGenerationDate]

\* mutant: removing the key also starts the daily count afresh
SaveRemoveKeyResetCount(stored, old) ==
  [stored EXCEPT !.key = NoKey, !.hasApiKey = FALSE,
                 !.dailyGenerationCount = 0, !.lastGenerationDate = NoDate]

\* removeApiKey + save on a local document old: geminiApiKey := null; the
\* pre-save hook sets hasApiKey := false when geminiApiKey was modified
SaveRemoveKey(stored, old) ==
  IF old.key = NoKey THEN stored
  ELSE [stored EXCEPT !.key = NoKey,
                      !.hasApiKey = IF old.hasApiKey THEN FALSE
                                    ELSE stored.hasApiKey]

\* setApiKey + save: the hook encrypts and sets hasApiKey := true
SaveSetKey(stored, old, k) ==
  [stored EXCEPT !.key = Encrypt(k),
                 !.hasApiKey = IF old.hasApiKey THEN stored.hasApiKey
                               ELSE TRUE]

\* ------------------------------------------------------- request handlers
\* The local document a handler keeps across its awaits.  The counters are
\* read again only by a free-tier request (incrementGeneration) and the key
\* only by a flagged one (removeApiKey), so the fields never read are blanked.
LocalDoc(doc) ==
  IF doc.hasApiKey
  THEN [doc EXCEPT !.dailyGenerationCount = 0, !.lastGenerationDate = NoDate,
                   !.generationCount = 0]
  ELSE [doc EXCEPT !.key = NoKey]

\* no generation record: imageUrl and imageData both null
NoRecord == [imageUrl |-> FALSE, imageData |-> FALSE]

Idle(u) ==
  [pc |-> "done", res |-> "none", user |-> u, sub |-> u, doc |-> Absent,
   cred |-> Shared, checked |-> FALSE, ncall |-> 0, rec |-> NoRecord]

\* the handler answers: a success response, or an error passed to errorHandler
Answer(u, result) == [Idle(u) EXCEPT !.res = result]

InFlight(r) == req[r].pc \in {"call", "store", "incr", "demote"}
FlightOf(u) == {r \in Reqs : InFlight(r) /\ req[r].user = u}

Max(a, b) == IF a >= b THEN a ELSE b

Init ==
  /\ db = [u \in Users |-> Absent]
  /\ gens = [u \in Users |-> 0]
  /\ req = [r \in Reqs |-> Idle(1)]
  /\ last = "none"
  /\ today = 0
  /\ clean = TRUE
  /\ deleted = FALSE
  /\ sharedDone = [u \in Users |-> 0]
  /\ maxFlight = [u \in Users |-> 0]

\* history bookkeeping once the run is no longer clean
Dirty ==
  /\ clean' = FALSE
  /\ deleted' = FALSE
  /\ sharedDone' = [u \in Users |-> 0]
  /\ maxFlight' = [u \in Users |-> 0]

\* ------------------------------------------------ user controller actions
\* createOrUpdateUser: create with defaults (the update branch writes only
\* email, name and picture)
createOrUpdateUser(u) ==
  /\ ~db[u].exists
  /\ db' = [db EXCEPT ![u] = NewUser]
  /\ UNCHANGED <<gens, req, last, today, clean, deleted, sharedDone, maxFlight>>

\* updateUserApiKey with a truthy geminiApiKey
setApiKey(u, k) ==
  /\ db[u].exists
  /\ db' = [db EXCEPT ![u] = SaveSetKey(db[u], db[u], k)]
  /\ UNCHANGED <<gens, req, last, today, clean, deleted, sharedDone, maxFlight>>

\* updateUserApiKey with an empty geminiApiKey
removeApiKey(u) ==
  /\ db[u].exists
  /\ db[u].key # NoKey
  /\ db' = [db EXCEPT ![u] = SaveRemoveKey(db[u], db[u])]
  /\ UNCHANGED <<gens, req, last, today, clean, deleted, sharedDone, maxFlight>>

\* checkCanGenerate: a flagged user whose key does not decrypt to a non-empty
\* string gets hasApiKey := false saved (geminiApiKey is not touched)
CanGenerateDoc(doc) ==
  IF doc.hasApiKey /\ getDecryptedApiKey(doc) = Null
  THEN [doc EXCEPT !.hasApiKey = FALSE]
  ELSE doc

\* the "allowed" field of the answer of checkCanGenerate: true for an unknown
\* auth0Id, true for a flagged user whose key decrypts, else the free-tier test
CanGenerateAllowed(doc, now) ==
  IF ~doc.exists THEN TRUE
  ELSE IF doc.hasApiKey /\ getDecryptedApiKey(doc) # Null THEN TRUE
  ELSE getTodayGenerations(doc, now) < DailyLimit

checkCanGenerate(u) ==
  /\ db[u].exists
  /\ CanGenerateDoc(db[u]) # db[u]
  /\ db' = [db EXCEPT ![u] = CanGenerateDoc(db[u])]
  /\ UNCHANGED <<gens, req, last, today, clean, deleted, sharedDone, maxFlight>>

\* deleteUser: findOneAndDelete on the users collection only
deleteUser(u) ==
  /\ db[u].exists
  /\ db' = [db EXCEPT ![u] = Absent]
  /\ deleted' = clean
  /\ UNCHANGED <<gens, req, last, today, clean, sharedDone, maxFlight>>

\* ------------------------------------------------------------ cron service
\* updateMany({hasApiKey:false}, {$set:{dailyGenerationCount:0, lastGenerationDate:null}})
\* mutant: the bulk update without its {hasApiKey: false} filter
ResetDocAll(doc) ==
  IF doc.exists
  THEN [doc EXCEPT !.dailyGenerationCount = 0, !.lastGenerationDate = NoDate]
  ELSE doc

ResetDoc(doc) ==
  IF doc.exists /\ ~doc.hasApiKey
  THEN [doc EXCEPT !.dailyGenerationCount = 0, !.lastGenerationDate = NoDate]
  ELSE doc

triggerDailyReset ==
  /\ \E u \in Users : db[u].exists
  /\ db' = [u \in Users |-> ResetDoc(db[u])]
  /\ Dirty
  /\ UNCHANGED <<gens, req, last, today>>

\* ------------------------------------------------------------- environment
DayChange ==
  /\ today < MaxDay
  /\ today' = today + 1
  /\ Dirty
  /\ UNCHANGED <<db, gens, req, last>>

\* the server is redeployed with a new ENCRYPTION_SECRET (no request in
\* flight): no stored ciphertext decrypts any more
Stale(doc) == IF doc.key = NoKey THEN doc ELSE [doc EXCEPT !.key.cur = FALSE]

RotateSecret ==
  /\ \A r \in Reqs : req[r].pc = "done"
  /\ \E u \in Users : Stale(db[u]) # db[u]
  /\ db' = [u \in Users |-> Stale(db[u])]
  /\ UNCHANGED <<gens, req, last, today, clean, deleted, sharedDone, maxFlight>>

\* ------------------------------------------- generation controller actions
\* generateImage / editImage up to the provider call: findOne, the free-tier
\* test, the choice of key.  The result is the handler's next position, or
\* the error it answers with.
\* mutant: the handler goes to the provider without the free-tier test
StartRequestNoCheck(u, doc, now) ==
  IF ~doc.exists THEN Answer(u, "NotFound")
  ELSE [pc |-> "call", res |-> "none", user |-> u, sub |-> u,
        doc |-> LocalDoc(doc),
        cred |-> getGenAI(ResolveKey(doc)),
        checked |-> ~doc.hasApiKey, ncall |-> 1, rec |-> NoRecord]

\* mutant: the account is looked up without the auth0Id filter (first account)
StartRequestAnyAccount(u, doc, now) ==
  IF ~db[1].exists THEN Answer(u, "NotFound")
  ELSE IF QuotaExceeded(db[1], now) THEN Answer(u, "QuotaExceeded")
  ELSE [pc |-> "call", res |-> "none", user |-> u, sub |-> u,
        doc |-> LocalDoc(db[1]),
        cred |-> getGenAI(ResolveKey(db[1])),
        checked |-> ~db[1].hasApiKey, ncall |-> 1, rec |-> NoRecord]

StartRequest(u, doc, now) ==
  IF ~doc.exists THEN Answer(u, "NotFound")
  ELSE IF QuotaExceeded(doc, now) THEN Answer(u, "QuotaExceeded")
  ELSE [pc |-> "call", res |-> "none", user |-> u, sub |-> u,
        doc |-> LocalDoc(doc),
        cred |-> getGenAI(ResolveKey(doc)),
        checked |-> ~doc.hasApiKey, ncall |-> 1, rec |-> NoRecord]

\* a handler moves to position h, or sends the answer h
Goto(r, h) ==
  IF h.pc = "done"
  THEN /\ req' = [req EXCEPT ![r] = Idle(h.user)]
       /\ last' = h.res
  ELSE /\ req' = [req EXCEPT ![r] = h]
       /\ UNCHANGED last

Begin(r, u) ==
  /\ req[r].pc = "done"
  /\ gens[u] + Cardinality(FlightOf(u)) < MaxRecords
  /\ Goto(r, StartRequest(u, db[u], today))
  /\ maxFlight' =
       IF clean /\ req'[r].pc = "call"
       THEN [maxFlight EXCEPT ![u] = Max(@, Cardinality(FlightOf(u)) + 1)]
       ELSE maxFlight
  /\ UNCHANGED <<db, gens, today, clean, deleted, sharedDone>>

generateImage(r, u) == Begin(r, u)

editImage(r, u) == Begin(r, u)

\* mutant: the catch block rethrows without removing the key
OnErrorNoDemote(h, mentionsApiKey, result) == Answer(h.user, result)

\* the catch block of generateImage / editImage: demote the user's key when
\* the local document is flagged and the message mentions "API key"
OnError(h, mentionsApiKey, result) ==
  IF h.doc.hasApiKey /\ mentionsApiKey
  THEN [h EXCEPT !.pc = "demote"]
  ELSE Answer(h.user, result)

\* the provider call returns (GeminiService.generateImage / editImage).
\* keyinvalid: status 400 with 'API key not valid'; apikeyerror: an error of
\* another kind whose message contains 'API key' (the service rethrows the
\* message as it is); nokey: getGenAI throws 'No API key available...'
\* because no default key is configured; error: any other error
ProviderResult(h, out) ==
  CASE out = "images"      -> [h EXCEPT !.pc = "store"]
    [] out = "noimages"    -> OnError(h, FALSE, "NoOutput")
    [] out = "keyinvalid"  -> OnError(h, TRUE, "ProviderError")
    [] out = "apikeyerror" -> OnError(h, TRUE, "ProviderError")
    [] out = "nokey"       -> OnError(h, TRUE, "ProviderError")
    [] out = "error"       -> OnError(h, FALSE, "ProviderError")

Outcomes == {"images", "noimages", "keyinvalid", "apikeyerror", "nokey", "error"}

providerReturn(r, out) ==
  /\ req[r].pc = "call"
  /\ out = "nokey" => req[r].cred = Shared
  /\ Goto(r, ProviderResult(req[r], out))
  /\ UNCHANGED <<db, gens, today, clean, deleted, sharedDone, maxFlight>>

\* upload (if configured) and Generation.create; an own-key request then
\* answers at once, a free-tier request goes on to incrementGeneration
Uploads == {"notconfigured", "ok", "fail"}

\* mutant: the inline bytes are kept next to the URL
StoredAsBoth(upload) ==
  IF upload = "notconfigured"
  THEN [imageUrl |-> FALSE, imageData |-> TRUE]
  ELSE IF upload = "ok"
       THEN [imageUrl |-> TRUE, imageData |-> TRUE]
       ELSE [imageUrl |-> FALSE, imageData |-> TRUE]

\* imageUrl / imageData as passed to Generation.create (TRUE: a value,
\* FALSE: null)
StoredAs(upload) ==
  IF upload = "notconfigured"
  THEN [imageUrl |-> FALSE, imageData |-> TRUE]
  ELSE IF upload = "ok"
       THEN [imageUrl |-> TRUE, imageData |-> FALSE]
       ELSE [imageUrl |-> FALSE, imageData |-> TRUE]

\* mutant: every request goes on to incrementGeneration, own key or not
AfterCreateAlwaysCount(h, upload) ==
  [h EXCEPT !.pc = "incr", !.rec = StoredAs(upload)]

AfterCreate(h, upload) ==
  IF ~h.doc.hasApiKey
  THEN [h EXCEPT !.pc = "incr", !.rec = StoredAs(upload)]
  ELSE Answer(h.user, "Completed")

persist(r, upload) ==
  /\ req[r].pc = "store"
  /\ gens' = [gens EXCEPT ![req[r].user] = @ + 1]
  /\ Goto(r, AfterCreate(req[r], upload))
  /\ UNCHANGED <<db, today, clean, deleted, sharedDone, maxFlight>>

\* user.incrementGeneration() and the response; save fails with
\* DocumentNotFoundError when the account was deleted meanwhile
increment(r) ==
  LET h == req[r]
      u == h.user
  IN /\ h.pc = "incr"
     /\ IF db[u].exists
        THEN /\ db' = [db EXCEPT ![u] =
                         SaveIncrement(db[u], h.doc, incrementGeneration(h.doc, today))]
             /\ Goto(r, Answer(u, "Completed"))
             /\ sharedDone' = IF clean THEN [sharedDone EXCEPT ![u] = @ + 1]
                              ELSE sharedDone
        ELSE /\ Goto(r, Answer(u, "InternalError"))
             /\ UNCHANGED <<db, sharedDone>>
     /\ UNCHANGED <<gens, today, clean, deleted, maxFlight>>

\* user.removeApiKey() in the catch block, then AppError 400
demote(r) ==
  LET h == req[r]
      u == h.user
  IN /\ h.pc = "demote"
     /\ IF db[u].exists
        THEN /\ db' = [db EXCEPT ![u] = SaveRemoveKey(db[u], h.doc)]
             /\ Goto(r, Answer(u, "InvalidCredential"))
        ELSE /\ Goto(r, Answer(u, "InternalError"))
             /\ UNCHANGED db
     /\ UNCHANGED <<gens, today, clean, deleted, sharedDone, maxFlight>>

\* segmentImage: findOne, the choice of key, the provider call
StartSegment(u, doc) ==
  IF ~doc.exists THEN Answer(u, "NotFound")
  ELSE [pc |-> "segcall", res |-> "none", user |-> u, sub |-> u,
        doc |-> Absent,
        cred |-> getGenAI(ResolveKey(doc)),
        checked |-> FALSE, ncall |-> 1, rec |-> NoRecord]

segmentImage(r, u) ==
  /\ req[r].pc = "done"
  /\ Goto(r, StartSegment(u, db[u]))
  /\ UNCHANGED <<db, gens, today, clean, deleted, sharedDone, maxFlight>>

segmentReturn(r, ok) ==
  /\ req[r].pc = "segcall"
  /\ Goto(r, Answer(req[r].user, IF ok THEN "Completed" ELSE "ProviderError"))
  /\ UNCHANGED <<db, gens, today, clean, deleted, sharedDone, maxFlight>>

\* ----------------------------------------------------------- specification
Next ==
  \/ \E u \in Users : createOrUpdateUser(u)
  \/ \E u \in Users, k \in Keys : setApiKey(u, k)
  \/ \E u \in Users : removeApiKey(u)
  \/ \E u \in Users : checkCanGenerate(u)
  \/ \E u \in Users : deleteUser(u)
  \/ triggerDailyReset
  \/ DayChange
  \/ RotateSecret
  \/ \E r \in Reqs, u \in Users : generateImage(r, u)
  \/ \E r \in Reqs, u \in Users : editImage(r, u)
  \/ \E r \in Reqs, out \in Outcomes : providerReturn(r, out)
  \/ \E r \in Reqs, up \in Uploads : persist(r, up)
  \/ \E r \in Reqs : increment(r)
  \/ \E r \in Reqs : demote(r)
  \/ \E r \in Reqs, u \in Users : segmentImage(r, u)
  \/ \E r \in Reqs, ok \in BOOLEAN : segmentReturn(r, ok)

Spec == Init /\ [][Next]_vars

TypeOK ==
  /\ today \in Days
  /\ \A u \in Users : gens[u] \in 0..MaxRecords
  /\ \A u \in Users : db[u].dailyGenerationCount \in 0..DailyLimit
  /\ \A u \in Users : db[u].generationCount \in 0..MaxRecords

\* ------------------------------------------------- authenticated requests
\* Two subjects with an account each.  Every route runs authenticate, which
\* leaves the verified subject in req.auth.sub; the controllers take the
\* account to act on from auth0Id in the body or the path.  A request is
\* therefore a pair: the verified subject s and the named account u.
Subjects == {1, 2}
AuthKeys == {1, 2}

\* records that the requests of this specification may create in all
MaxAuthRecords == 2

AuthInit ==
  /\ db = [u \in Subjects |-> Absent]
  /\ gens = [u \in Subjects |-> 0]
  /\ req = [r \in Reqs |-> Idle(1)]
  /\ last = "none"
  /\ today = 0
  /\ clean = FALSE
  /\ deleted = FALSE
  /\ sharedDone = [u \in Subjects |-> 0]
  /\ maxFlight = [u \in Subjects |-> 0]

\* the handler record of a request whose token was verified for subject s
WithSub(h, s) == IF h.pc = "done" THEN h ELSE [h EXCEPT !.sub = s]

AuthRoom ==
  gens[1] + gens[2] + Cardinality({r \in Reqs : InFlight(r)}) < MaxAuthRecords

\* POST /generate with a token of subject s and auth0Id u in the body
generateImageAs(r, s, u) ==
  /\ req[r].pc = "done"
  /\ AuthRoom
  /\ Goto(r, WithSub(StartRequest(u, db[u], today), s))
  /\ UNCHANGED <<db, gens, today, clean, deleted, sharedDone, maxFlight>>

\* POST /edit with a token of subject s and auth0Id u in the body
editImageAs(r, s, u) == generateImageAs(r, s, u)

\* POST /segment with a token of subject s and auth0Id u in the body
segmentImageAs(r, s, u) ==
  /\ req[r].pc = "done"
  /\ Goto(r, WithSub(StartSegment(u, db[u]), s))
  /\ UNCHANGED <<db, gens, today, clean, deleted, sharedDone, maxFlight>>

AuthNext ==
  \/ \E u \in Subjects : createOrUpdateUser(u)
  \/ \E u \in Subjects, k \in AuthKeys : setApiKey(u, k)
  \/ \E u \in Subjects : removeApiKey(u)
  \/ \E r \in Reqs, s \in Subjects, u \in Subjects : generateImageAs(r, s, u)
  \/ \E r \in Reqs, s \in Subjects, u \in Subjects : editImageAs(r, s, u)
  \/ \E r \in Reqs, s \in Subjects, u \in Subjects : segmentImageAs(r, s, u)
  \/ \E r \in Reqs, out \in Outcomes : providerReturn(r, out)
  \/ \E r \in Reqs, up \in Uploads : persist(r, up)
  \/ \E r \in Reqs : increment(r)
  \/ \E r \in Reqs : demote(r)
  \/ \E r \in Reqs, ok \in BOOLEAN : segmentReturn(r, ok)

AuthSpec == AuthInit /\ [][AuthNext]_vars

\* ------------------------------------------------- image post-processing
\* The loop of GeminiService.generateImage / editImage over the provider's
\* images, for one image: removeWhiteBorders, then ensureDimensions when the
\* settings hold a width and a height.  The provider's image is a raster of
\* two colours (paper, and ink on the marked pixels); sharp delivers its
\* samples as RGB or RGBA, of which the scan reads the first three.  The
\* image a step returns is described by its frame and by the sharp
\* operations that produced its bytes (none: the bytes it was given).
DefaultThreshold == 240

MaxSide == 3         \* width and height of a provider image
MaxInk  == 2         \* marked pixels of a provider image

\* settings.width / settings.height not given (undefined)
NoSize == 0

PostReqs == {1}

Inks   == {<<255, 255, 255>>, <<240, 240, 240>>, <<239, 255, 255>>,
           <<255, 239, 255>>, <<255, 255, 239>>}
Papers == {<<255, 255, 255>>, <<240, 240, 240>>}

Positions(w, h) == (0..(w - 1)) \X (0..(h - 1))

Rasters ==
  UNION { [width : {w}, height : {h},
           marks : {m \in SUBSET Positions(w, h) : Cardinality(m) <= MaxInk},
           ink : Inks, paper : Papers] : w \in 1..MaxSide, h \in 1..MaxSide }

\* the r, g, b samples at data[(y * width + x) * channels ...]
Pixel(img, x, y) == IF <<x, y>> \in img.marks THEN img.ink ELSE img.paper

Min(a, b) == IF a <= b THEN a ELSE b

\* mutant: a sample equal to the threshold counts as content
NotWhiteInclusive(img, x, y, threshold) ==
  LET p == Pixel(img, x, y)
  IN p[1] <= threshold \/ p[2] <= threshold \/ p[3] <= threshold

\* r < threshold || g < threshold || b < threshold
NotWhite(img, x, y, threshold) ==
  LET p == Pixel(img, x, y)
  IN p[1] < threshold \/ p[2] < threshold \/ p[3] < threshold

\* the two nested loops, rows outside and columns inside, from pixel i on
RECURSIVE ScanFrom(_, _, _, _)
ScanFrom(img, threshold, i, box) ==
  IF i = img.width * img.height THEN box
  ELSE LET x == i % img.width
           y == i \div img.width
       IN ScanFrom(img, threshold, i + 1,
            IF NotWhite(img, x, y, threshold)
            THEN [minX |-> Min(box.minX, x), minY |-> Min(box.minY, y),
                  maxX |-> Max(box.maxX, x), maxY |-> Max(box.maxY, y)]
            ELSE box)

\* minX, minY, maxX, maxY after the scan
Scan(img, threshold) ==
  ScanFrom(img, threshold, 0,
           [minX |-> img.width, minY |-> img.height, maxX |-> 0, maxY |-> 0])

\* the base64 string a step was given, returned as it is
Original(img) ==
  [width |-> img.width, height |-> img.height, left |-> 0, top |-> 0,
   ops |-> <<>>]

\* removeWhiteBorders; fails: sharp throws (metadata, raw, extract or
\* toBuffer) and the catch block returns the input.  borderPercentage < 1 is
\* (borderPixels / totalPixels) * 100 < 1, that is borderPixels * 100 <
\* totalPixels
removeWhiteBorders(img, threshold, fails) ==
  LET b == Scan(img, threshold)
      borderPixels == b.minX + (img.width - b.maxX - 1)
                        + b.minY + (img.height - b.maxY - 1)
      totalPixels == (img.width + img.height) * 2
  IN IF fails THEN Original(img)
     ELSE IF b.minX >= b.maxX \/ b.minY >= b.maxY THEN Original(img)
     ELSE IF borderPixels * 100 < totalPixels THEN Original(img)
     ELSE [width |-> b.maxX - b.minX + 1, height |-> b.maxY - b.minY + 1,
           left |-> b.minX, top |-> b.minY, ops |-> <<"extract">>]

\* ensureDimensions: resize(targetWidth, targetHeight, {fit: 'cover'}); the
\* catch block returns the image it was given
ensureDimensions(image, targetWidth, targetHeight, fails) ==
  IF fails THEN image
  ELSE [image EXCEPT !.width = targetWidth, !.height = targetHeight,
                     !.ops = Append(@, "resize")]

\* the settings the controller hands to the service: generateImage passes
\* the settings of the body, editImage a new object with maskImage,
\* referenceImages, temperature and seed only
Routes == {"generate", "edit"}

ServiceSettings(route, body) ==
  IF route = "edit" THEN [width |-> NoSize, height |-> NoSize] ELSE body

\* width and height as a request may give them (scaled down with the images)
Widths  == {NoSize, 2}
Heights == {NoSize, 3}

PostInit ==
  /\ db = [u \in Users |-> Absent]
  /\ gens = [u \in Users |-> 0]
  /\ last = "none"
  /\ today = 0
  /\ clean = TRUE
  /\ deleted = FALSE
  /\ sharedDone = [u \in Users |-> 0]
  /\ maxFlight = [u \in Users |-> 0]
  /\ \E route \in Routes, w \in Widths, h \in Heights, img \in Rasters :
       req = [r \in PostReqs |->
                [pc |-> "trim", route |-> route,
                 body |-> [width |-> w, height |-> h],
                 settings |-> ServiceSettings(route, [width |-> w, height |-> h]),
                 image |-> img, processedImage |-> Original(img),
                 trimFailed |-> FALSE, resizeFailed |-> FALSE]]

PostFrame == UNCHANGED <<db, gens, last, today, clean, deleted, sharedDone, maxFlight>>

\* let processedImage = await removeWhiteBorders(image)
trimBorders(r, fails) ==
  LET h == req[r] IN
    /\ h.pc = "trim"
    /\ req' = [req EXCEPT ![r] =
         [h EXCEPT !.processedImage = removeWhiteBorders(h.image, DefaultThreshold, fails),
                   !.trimFailed = fails,
                   !.pc = IF h.settings.width # NoSize /\ h.settings.height # NoSize
                          THEN "resize" ELSE "push"]]
    /\ PostFrame

\* processedImage = await ensureDimensions(processedImage, width, height)
resizeToSettings(r, fails) ==
  LET h == req[r] IN
    /\ h.pc = "resize"
    /\ req' = [req EXCEPT ![r] =
         [h EXCEPT !.processedImage =
                      ensureDimensions(h.processedImage, h.settings.width,
                                       h.settings.height, fails),
                   !.resizeFailed = fails,
                   !.pc = "push"]]
    /\ PostFrame

\* processedImages.push(processedImage), and the images are returned
pushProcessed(r) ==
  /\ req[r].pc = "push"
  /\ req' = [req EXCEPT ![r].pc = "done"]
  /\ PostFrame

PostNext ==
  \/ \E r \in PostReqs, fails \in BOOLEAN : trimBorders(r, fails)
  \/ \E r \in PostReqs, fails \in BOOLEAN : resizeToSettings(r, fails)
  \/ \E r \in PostReqs : pushProcessed(r)

PostSpec == PostInit /\ [][PostNext]_vars

\* ------------------------------------------------------ prompt composition
\* GeminiService.enhancePrompt and buildEditPrompt.  A composed prompt is
\* the record of the parts the template strings are filled with: the ratio
\* string a:b is the pair <<a, b>>, an empty string is "", and the seed or
\* temperature of the settings is given or not (undefined / null).
MaxDim == 32         \* settings.width and settings.height

NoRatio == <<0, 0>>
NoSeed  == [given |-> FALSE, value |-> 0]
NoTemperature == [given |-> FALSE, tenths |-> 0]

\* mutant: the remainder is taken once only
gcdOneStep(a, b) == IF b = 0 THEN a ELSE IF a % b = 0 THEN b ELSE 1

\* const gcd = (a, b) => b === 0 ? a : gcd(b, a % b)
RECURSIVE gcd(_, _)
gcd(a, b) == IF b = 0 THEN a ELSE gcd(b, a % b)

\* the chain of ratio === '...' tests; "" when none matches
Format(ratio) ==
  CASE ratio = <<16, 9>> -> "widescreen/cinematic"
    [] ratio = <<9, 16>> -> "vertical/mobile"
    [] ratio = <<4, 3>>  -> "standard/classic"
    [] ratio = <<3, 4>>  -> "portrait"
    [] ratio = <<21, 9>> -> "ultra-wide/cinematic"
    [] ratio = <<1, 1>>  -> "square/Instagram"
    [] OTHER -> ""

\* if (settings.seed): undefined, null and 0 are falsy
SeedGuidance(seed) ==
  IF seed.given /\ seed.value # 0 THEN seed ELSE NoSeed

\* the temperature tiers of enhancePrompt (temperature in tenths)
CreativeGuidance(temperature) ==
  IF ~temperature.given THEN ""
  ELSE IF temperature.tenths <= 5 THEN "precise, realistic"
  ELSE IF temperature.tenths <= 10 THEN "balanced"
  ELSE IF temperature.tenths <= 15 THEN "artistic and creative"
  ELSE "highly imaginative"

\* the temperature tiers of buildEditPrompt
StyleGuidance(temperature) ==
  IF ~temperature.given THEN "photorealistic, high quality"
  ELSE IF temperature.tenths <= 5 THEN "photorealistic, highly detailed"
  ELSE IF temperature.tenths <= 10 THEN "realistic, natural"
  ELSE IF temperature.tenths <= 15 THEN "artistic, creative"
  ELSE "experimental, imaginative"

enhancePrompt(settings) ==
  IF settings.width # NoSize /\ settings.height # NoSize
  THEN LET divisor == gcd(settings.width, settings.height)
           ratio == <<settings.width \div divisor, settings.height \div divisor>>
       IN [ratio |-> ratio, format |-> Format(ratio),
           width |-> settings.width, height |-> settings.height,
           guidance |-> CreativeGuidance(settings.temperature),
           seedGuidance |-> SeedGuidance(settings.seed)]
  ELSE [ratio |-> NoRatio, format |-> "", width |-> NoSize, height |-> NoSize,
        guidance |-> CreativeGuidance(settings.temperature),
        seedGuidance |-> SeedGuidance(settings.seed)]

buildEditPrompt(settings) ==
  [ratio |-> NoRatio, format |-> "", width |-> NoSize, height |-> NoSize,
   guidance |-> StyleGuidance(settings.temperature),
   seedGuidance |-> SeedGuidance(settings.seed)]

\* z.number().int().optional().nullable()
SeedInputs == {NoSeed} \cup [given : {TRUE}, value : {-1, 0, 1}]

\* z.number().min(0).max(2).optional()
TemperatureInputs ==
  {NoTemperature} \cup [given : {TRUE}, tenths : {0, 12}]

NoPrompt ==
  [ratio |-> NoRatio, format |-> "", width |-> NoSize, height |-> NoSize,
   guidance |-> "", seedGuidance |-> NoSeed]

PromptInit ==
  /\ db = [u \in Users |-> Absent]
  /\ gens = [u \in Users |-> 0]
  /\ last = "none"
  /\ today = 0
  /\ clean = TRUE
  /\ deleted = FALSE
  /\ sharedDone = [u \in Users |-> 0]
  /\ maxFlight = [u \in Users |-> 0]
  /\ \E route \in Routes, w \in 0..MaxDim, h \in 0..MaxDim,
        seed \in SeedInputs, temperature \in TemperatureInputs :
       req = [r \in PostReqs |->
                [pc |-> "compose", route |-> route,
                 settings |-> [width |-> w, height |-> h, seed |-> seed,
                               temperature |-> temperature],
                 prompt |-> NoPrompt]]

\* GeminiService.generateImage: const enhancedPrompt = this.enhancePrompt(...)
composeGenerate(r) ==
  /\ req[r].pc = "compose"
  /\ req[r].route = "generate"
  /\ req' = [req EXCEPT ![r].prompt = enhancePrompt(req[r].settings),
                        ![r].pc = "composed"]
  /\ PostFrame

\* GeminiService.editImage: const editPrompt = this.buildEditPrompt(...)
composeEdit(r) ==
  /\ req[r].pc = "compose"
  /\ req[r].route = "edit"
  /\ req' = [req EXCEPT ![r].prompt = buildEditPrompt(req[r].settings),
                        ![r].pc = "composed"]
  /\ PostFrame

PromptNext ==
  \/ \E r \in PostReqs : composeGenerate(r)
  \/ \E r \in PostReqs : composeEdit(r)

PromptSpec == PromptInit /\ [][PromptNext]_vars

\* ------------------------------------------------------------------ claims
\* checkAllowed as section 4.5 states it: the effective count is the stored
\* count if the last generation was today, else 0; disallowed iff the user
\* holds no own credential and the effective count has reached the limit
EffectiveCount(doc, now) ==
  IF doc.lastGenerationDate = now THEN doc.dailyGenerationCount ELSE 0

Disallowed(doc, now) == ~doc.hasApiKey /\ EffectiveCount(doc, now) >= 2

\* a handler answers in this step
Answers(r) == req[r].pc # "done" /\ req'[r].pc = "done"

\* C1 as claimed: in a run where the requests of a user run one at a time,
\* with no resetAll and no day change, at most 2 free-tier requests of the
\* user reach Completed, and once 2 have completed the user is disallowed.
C1_SequentialLimit ==
  \A u \in Users :
    (clean /\ maxFlight[u] <= 1) =>
      /\ sharedDone[u] <= 2
      /\ (sharedDone[u] = 2 /\ db[u].exists /\ ~db[u].hasApiKey)
            => Disallowed(db[u], today)

\* C1 amended: the same, for a run in which the account is not deleted
\* (deleteUser followed by createOrUpdateUser starts a document with count 0).
C1_AccountLimit ==
  \A u \in Users :
    (clean /\ ~deleted /\ maxFlight[u] <= 1) =>
      /\ sharedDone[u] <= 2
      /\ (sharedDone[u] = 2 /\ db[u].exists /\ ~db[u].hasApiKey)
            => Disallowed(db[u], today)

C1_Witness ==
  /\ clean
  /\ ~deleted
  /\ maxFlight[1] = 1
  /\ sharedDone[1] = 2
  /\ last = "QuotaExceeded"

\* C2: within one day and with no resetAll, the free-tier requests of a user
\* that reach Completed number at most 2 + K, K the largest number of that
\* user's requests in flight at once (stated for the runs in which no
\* account is deleted, where the count already exceeds the bound).
C2_OverQuotaBound ==
  \A u \in Users : (clean /\ ~deleted) => sharedDone[u] <= 2 + maxFlight[u]

\* C3: every provider call made with the shared default credential belongs
\* to a request that passed the free-tier test as a user without own
\* credential.
C3_SharedKeyChecked ==
  \A r \in Reqs :
    (req[r].pc \in {"call", "segcall"} /\ req[r].cred = Shared)
      => req[r].checked

\* C4: a generate/edit request that the quota check disallows answers
\* QuotaExceeded in the step that loads the account: no handler enters the
\* provider call from a disallowed account, and the refusing step leaves the
\* users collection, the records and every handler as they were.
C4_QuotaFailFast ==
  [][ /\ \A u \in Users :
           (db[u].exists /\ Disallowed(db[u], today))
             => StartRequest(u, db[u], today) = Answer(u, "QuotaExceeded")
      /\ \A r \in Reqs :
           (req[r].pc = "done" /\ req'[r].pc = "call")
             => ~Disallowed(db[req'[r].user], today)
      /\ (last' = "QuotaExceeded" /\ last # "QuotaExceeded")
           => /\ \E u \in Users : db[u].exists /\ Disallowed(db[u], today)
              /\ UNCHANGED <<db, gens, req>>
    ]_vars

C4_Witness ==
  /\ last = "QuotaExceeded"
  /\ db[1].dailyGenerationCount = 2
  /\ \A r \in Reqs : req[r].pc = "done"

\* C5: a Completed generate/edit request runs incrementGeneration exactly
\* when its provider call used the shared default credential.
C5_IncrementIffShared ==
  [][ \A r \in Reqs :
        (Answers(r) /\ req[r].pc \in {"store", "incr"} /\ last' = "Completed")
          => ((req[r].pc = "incr") <=> (req[r].cred = Shared))
    ]_vars

\* the parts of C6 that do not depend on the account: a handler makes at
\* most one provider call, and an invalid-key report to a request that used
\* the user's own credential sends the handler to removeApiKey
C6_NoRetry(r) ==
  /\ req[r].ncall <= 1
  /\ req'[r].ncall <= 1
  /\ (req[r].pc = "call" /\ req[r].cred # Shared)
       => ProviderResult(req[r], "keyinvalid").pc = "demote"

\* the handler of an own-credential request leaves the catch block in this step
C6_Leaves(r) ==
  /\ req[r].pc = "demote"
  /\ req[r].cred # Shared
  /\ req'[r] # req[r]

\* the stored credential is cleared and the answer is InvalidCredential
C6_Demoted(r) ==
  LET u == req[r].user IN
    /\ req'[r].pc = "done"
    /\ last' = "InvalidCredential"
    /\ db'[u].key = NoKey
    /\ ~db'[u].hasApiKey

C7_UndecryptableNoSharedCall ==
  \A r \in Reqs :
    req[r].pc = "call" => ~(req[r].doc.hasApiKey /\ req[r].cred = Shared)

\* C8: for every account, hasApiKey is true if and only if a geminiApiKey is
\* stored.
C8_FlagMatchesKey ==
  \A u \in Users : db[u].exists => (db[u].hasApiKey <=> db[u].key # NoKey)

\* a generate/edit handler answers Completed in this step
Completes(r) ==
  /\ Answers(r)
  /\ req[r].pc \in {"store", "incr"}
  /\ last' = "Completed"

C10_LifetimeMonotone ==
  [][ \A u \in Users :
        (db[u].exists /\ db'[u].exists)
          => db'[u].generationCount >= db[u].generationCount
    ]_vars

\* C11: a generate/edit request of a user flagged as holding an own
\* credential passes the quota check whatever the stored daily count is, and
\* when such a request reaches Completed the stored dailyGenerationCount and
\* lastGenerationDate are left as they were.
C11_OwnKeyUncounted ==
  [][ /\ \A u \in Users :
           (db[u].exists /\ db[u].hasApiKey)
             => StartRequest(u, db[u], today).pc = "call"
      /\ \A r \in Reqs :
           (Completes(r) /\ req[r].doc.hasApiKey)
             => /\ db'[req[r].user].dailyGenerationCount
                     = db[req[r].user].dailyGenerationCount
                /\ db'[req[r].user].lastGenerationDate
                     = db[req[r].user].lastGenerationDate
    ]_vars

C11_Witness ==
  /\ clean /\ ~deleted
  /\ \A r \in Reqs : req[r].pc = "done"
  /\ db[1].exists /\ db[1].hasApiKey
  /\ db[1].dailyGenerationCount = 2
  /\ sharedDone[1] = 2
  /\ gens[1] = 3
  /\ last = "Completed"

\* the two states of section 4.5
StaleOrNone(doc, now) ==
  doc.lastGenerationDate = NoDate \/ doc.lastGenerationDate < now

FreshToday(doc, now) == doc.lastGenerationDate = now

\* the user document of handler r still has the counters that are stored
C12_Current(r) ==
  /\ req[r].doc.dailyGenerationCount = db[req[r].user].dailyGenerationCount
  /\ req[r].doc.lastGenerationDate = db[req[r].user].lastGenerationDate

C13_ResetOnlyStale ==
  [][ triggerDailyReset =>
        \A u \in Users :
          /\ db'[u].dailyGenerationCount # db[u].dailyGenerationCount
               => EffectiveCount(db[u], today) = 0
          /\ (db[u].exists /\ Disallowed(db[u], today))
               => Disallowed(db'[u], today)
    ]_vars

\* C14: resetAll sets dailyGenerationCount to 0 and clears lastGenerationDate
\* for every user with hasApiKey false, leaves every field of every user
\* with hasApiKey true unchanged, and leaves the lifetime count, the stored
\* credential and hasApiKey of every user unchanged.
C14_ResetFrame ==
  [][ triggerDailyReset =>
        \A u \in Users :
          /\ (db[u].exists /\ ~db[u].hasApiKey)
               => /\ db'[u].dailyGenerationCount = 0
                  /\ db'[u].lastGenerationDate = NoDate
          /\ (db[u].exists /\ db[u].hasApiKey) => db'[u] = db[u]
          /\ db'[u].exists = db[u].exists
          /\ db'[u].generationCount = db[u].generationCount
          /\ db'[u].key = db[u].key
          /\ db'[u].hasApiKey = db[u].hasApiKey
    ]_vars

C14_Witness ==
  /\ ~clean
  /\ today = 0
  /\ db[1].exists
  /\ ~db[1].hasApiKey
  /\ db[1].generationCount = 2
  /\ db[1].dailyGenerationCount = 0
  /\ db[1].lastGenerationDate = NoDate

\* handler r is at a provider call
AtProvider(h) == h.pc \in {"call", "segcall"}

\* the credentials a request naming account u may use: the shared default
\* credential and the plaintext of the key stored for u
CredentialsOf(u) ==
  {Shared} \cup (IF db[u].key # NoKey THEN {db[u].key.k} ELSE {})

\* C15: the provider call of a request naming user u is made with the key
\* stored for u when the request loaded the account or with the shared
\* default credential, never with a key taken from another account, and the
\* credential stays the same for the whole call.
C15_CredentialIsolation ==
  [][ \A r \in Reqs :
        /\ (req[r].pc = "done" /\ AtProvider(req'[r]))
             => req'[r].cred \in CredentialsOf(req'[r].user)
        /\ (AtProvider(req[r]) /\ AtProvider(req'[r]))
             => /\ req'[r].cred = req[r].cred
                /\ req'[r].user = req[r].user
    ]_vars

C15_Witness ==
  /\ db[1].exists /\ db[1].key # NoKey /\ db[1].key.k = 1
  /\ db[2].exists /\ db[2].key # NoKey /\ db[2].key.k = 2
  /\ req[1].pc = "call" /\ req[1].user = 1 /\ req[1].cred = 1
  /\ req[2].pc = "call" /\ req[2].user = 2 /\ req[2].cred = 2

\* C16: the account a request acts on is the account of the verified subject
\* of the request.
C16_ActsOnOwnAccount ==
  \A r \in Reqs : req[r].pc # "done" => req[r].user = req[r].sub

\* C17: the record a generate/edit request creates has exactly one of
\* imageUrl and imageData set: imageUrl when storage is configured and the
\* upload succeeded, imageData otherwise; a failed upload does not fail the
\* request, which goes on to its increment or answers Completed.
C17_OneImageReference ==
  [][ \A r \in Reqs, up \in Uploads :
        persist(r, up) =>
          LET g == StoredAs(up) IN
            /\ g.imageUrl # g.imageData
            /\ g.imageUrl <=> (up = "ok")
            /\ gens'[req[r].user] = gens[req[r].user] + 1
            /\ \/ req'[r].pc = "incr" /\ req'[r].rec = g
               \/ req'[r].pc = "done" /\ last' = "Completed"
    ]_vars

C17_Witness ==
  /\ req[1].pc = "incr"
  /\ req[1].rec = [imageUrl |-> TRUE, imageData |-> FALSE]
  /\ req[2].pc = "incr"
  /\ req[2].rec = [imageUrl |-> FALSE, imageData |-> TRUE]
  /\ gens[1] = 2

\* C18: a generate/edit request that ends Failed has created no generation
\* record and leaves the user's daily count, lifetime count and
\* lastGenerationDate as they were.
C18_FailedLeavesNothing ==
  [][ \A r \in Reqs :
        (Answers(r) /\ last' # "Completed") =>
          /\ req[r].rec = NoRecord
          /\ db'[req[r].user].dailyGenerationCount
               = db[req[r].user].dailyGenerationCount
          /\ db'[req[r].user].generationCount
               = db[req[r].user].generationCount
          /\ db'[req[r].user].lastGenerationDate
               = db[req[r].user].lastGenerationDate
    ]_vars

\* C19: when an account is deleted, no generation record owned by it
\* remains.
C19_DeleteCascades ==
  [][ \A u \in Users : deleteUser(u) => gens'[u] = 0 ]_vars

\* the three counters of account u are the same before and after the step
C21_SameCounts(u) ==
  /\ db'[u].exists
  /\ db'[u].dailyGenerationCount = db[u].dailyGenerationCount
  /\ db'[u].lastGenerationDate = db[u].lastGenerationDate
  /\ db'[u].generationCount = db[u].generationCount

\* the step leaves u without own credential, and disallowed if the count
\* stored for today had reached the limit
C21_Reactivated(u) ==
  /\ db'[u].key = NoKey
  /\ ~db'[u].hasApiKey
  /\ EffectiveCount(db[u], today) >= 2 => Disallowed(db'[u], today)

\* C21: setting a credential and clearing it, by updateUserApiKey or by the
\* automatic demotion of a request, leave dailyGenerationCount,
\* lastGenerationDate and the lifetime count as they were; a user whose count
\* for today had reached 2 is therefore disallowed again once the credential
\* is cleared.
C21_KeyChangeKeepsCounts ==
  [][ /\ \A u \in Users, k \in Keys :
           setApiKey(u, k) => C21_SameCounts(u) /\ db'[u].hasApiKey
      /\ \A u \in Users :
           removeApiKey(u) => C21_SameCounts(u) /\ C21_Reactivated(u)
      /\ \A r \in Reqs :
           (demote(r) /\ db[req[r].user].exists)
             => C21_SameCounts(req[r].user) /\ C21_Reactivated(req[r].user)
    ]_vars

C21_Witness ==
  /\ clean /\ ~deleted
  /\ maxFlight[1] = 1
  /\ sharedDone[1] = 2
  /\ last = "InvalidCredential"
  /\ db[1].key = NoKey
  /\ Disallowed(db[1], today)

\* C22: a generate request for a subject that has no account yet is allowed,
\* as checkCanGenerate answers for it: the request creates the account and
\* goes to the provider with the shared credential.
C22_FirstGenerationCreates ==
  [][ \A r \in Reqs, u \in Users :
        (generateImage(r, u) /\ ~db[u].exists) =>
          /\ CanGenerateAllowed(db[u], today)
          /\ req'[r].pc = "call"
          /\ req'[r].cred = Shared
          /\ db'[u].exists
    ]_vars

\* the pixels of img with a red, green or blue sample strictly below T
ContentPixels(img, T) ==
  {p \in Positions(img.width, img.height) :
     \E c \in 1..3 : Pixel(img, p[1], p[2])[c] < T}

Thresholds == {0, 240, 241, 256}

Least(S) == CHOOSE a \in S : \A b \in S : a <= b

Greatest(S) == CHOOSE a \in S : \A b \in S : a >= b

\* the bounding box of a non-empty set of pixels
BoundingBox(C) ==
  [minX |-> Least({p[1] : p \in C}), minY |-> Least({p[2] : p \in C}),
   maxX |-> Greatest({p[1] : p \in C}), maxY |-> Greatest({p[2] : p \in C})]

\* C23: for every image and threshold T the scan ends with minX, minY, maxX,
\* maxY equal to the least and greatest x and y over exactly the pixels with
\* a red, green or blue sample strictly below T; when no pixel qualifies the
\* scan reports no content (minX > maxX) and removeWhiteBorders returns the
\* image it was given.  The scan is compared for the image of every request
\* about to be trimmed; the image returned, for every request that is done.
C23_ScanIsBoundingBox ==
  \A r \in PostReqs, T \in Thresholds :
    LET img == req[r].image
        C == ContentPixels(img, T)
        b == Scan(img, T)
    IN /\ (req[r].pc = "trim" /\ C # {}) => b = BoundingBox(C)
       /\ (req[r].pc = "trim" /\ C = {})
            => /\ b.minX > b.maxX
               /\ removeWhiteBorders(img, T, FALSE) = Original(img)
       /\ (req[r].pc = "done" /\ req[r].settings.width = NoSize
             /\ T = DefaultThreshold /\ C = {})
            => req[r].processedImage = Original(img)

\* a 3 x 3 image with two green-tinted pixels on white: the scan found the
\* box (1,0)-(2,1) and the crop was taken
C23_Witness ==
  /\ req[1].pc = "done"
  /\ req[1].image = [width |-> 3, height |-> 3, marks |-> {<<1, 0>>, <<2, 1>>},
                     ink |-> <<255, 239, 255>>, paper |-> <<255, 255, 255>>]
  /\ Scan(req[1].image, DefaultThreshold)
       = [minX |-> 1, minY |-> 0, maxX |-> 2, maxY |-> 1]
  /\ req[1].processedImage
       = [width |-> 2, height |-> 2, left |-> 1, top |-> 0, ops |-> <<"extract">>]

\* border trim as C24 states it, from the bounding box of the content
C24_Trimmed(img, box) ==
  LET left == box.minX
      right == img.width - 1 - box.maxX
      top == box.minY
      bottom == img.height - 1 - box.maxY
  IN IF 100 * (left + right + top + bottom) < 2 * (img.width + img.height)
     THEN Original(img)
     ELSE [width |-> box.maxX - box.minX + 1, height |-> box.maxY - box.minY + 1,
           left |-> box.minX, top |-> box.minY, ops |-> <<"extract">>]

\* C24: for every image with at least one content pixel, a single pixel, a
\* single column or a single row included, border trim returns the input
\* when 100 * (left + right + top + bottom) < 2 * (width + height) and the
\* inclusive crop to the bounding box otherwise.
C24_TrimRule ==
  \A r \in PostReqs :
    LET h == req[r]
        C == ContentPixels(h.image, DefaultThreshold)
    IN (h.pc # "trim" /\ ~h.trimFailed /\ h.settings.width = NoSize /\ C # {})
         => h.processedImage = C24_Trimmed(h.image, BoundingBox(C))

\* C25: every image returned for a request that gave a width and a height
\* has exactly that width and height.
C25_ExactDimensions ==
  \A r \in PostReqs :
    LET h == req[r] IN
      (h.pc = "done" /\ h.body.width # NoSize /\ h.body.height # NoSize)
        => /\ h.processedImage.width = h.body.width
           /\ h.processedImage.height = h.body.height

\* C26: post-processing returns an image for the provider's image whatever
\* fails, and when the border trim or the resize failed that image is the
\* provider's, byte for byte.
C26_FailureReturnsOriginal ==
  \A r \in PostReqs :
    LET h == req[r] IN
      h.pc = "done" =>
        /\ h.processedImage.width >= 1 /\ h.processedImage.height >= 1
        /\ (h.trimFailed \/ h.resizeFailed)
             => h.processedImage = Original(h.image)

\* the common divisors of two positive integers
Divisors(a, b) == {d \in 1..a : a % d = 0 /\ b % d = 0}

RecognisedRatios ==
  {<<16, 9>>, <<9, 16>>, <<4, 3>>, <<3, 4>>, <<21, 9>>, <<1, 1>>}

\* C27: for all positive widths and heights the ratio of the composed prompt
\* is (width/g):(height/g), g the greatest common divisor of width and
\* height, its two parts are coprime, and a format label is attached exactly
\* when the ratio is one of 16:9, 9:16, 4:3, 3:4, 21:9, 1:1.
C27_RatioSimplified ==
  \A r \in PostReqs :
    LET h == req[r]
        w == h.settings.width
        t == h.settings.height
        g == Greatest(Divisors(w, t))
    IN (h.pc = "composed" /\ h.route = "generate" /\ w >= 1 /\ t >= 1)
         => /\ h.prompt.ratio = <<w \div g, t \div g>>
            /\ Divisors(h.prompt.ratio[1], h.prompt.ratio[2]) = {1}
            /\ h.prompt.format # "" <=> h.prompt.ratio \in RecognisedRatios
            /\ h.prompt.width = w /\ h.prompt.height = t

C27_Witness ==
  /\ req[1].pc = "composed"
  /\ req[1].settings.width = 32
  /\ req[1].settings.height = 18
  /\ req[1].prompt.ratio = <<16, 9>>
  /\ req[1].prompt.format = "widescreen/cinematic"

\* C28: the composed generate or edit prompt contains the seed hint if and
\* only if a seed was supplied, 0 included.
C28_SeedHintIffSeed ==
  \A r \in PostReqs :
    req[r].pc = "composed" =>
      /\ req[r].prompt.seedGuidance.given <=> req[r].settings.seed.given
      /\ req[r].prompt.seedGuidance.given
           => req[r].prompt.seedGuidance.value = req[r].settings.seed.value

\* C29: the automatic demotion of a request clears only the credential the
\* provider rejected: when the credential stored for the user is no longer
\* the one the request used, the demotion leaves it and hasApiKey as they are.
C29_DemotionSparesNewKey ==
  [][ \A r \in Reqs :
        LET u == req[r].user IN
          (demote(r) /\ db[u].exists /\ db[u].key # NoKey
             /\ db[u].key.k # req[r].cred)
            => /\ db'[u].key = db[u].key
               /\ db'[u].hasApiKey = db[u].hasApiKey
    ]_vars

\* C30: a generate/edit request that fails for a reason other than a
\* provider response classified as credential-invalid leaves the stored
\* credential and hasApiKey as they are: such a failure does not send the
\* handler to removeApiKey, and the step that answers it changes no account.
C30_OtherFailuresKeepKey ==
  [][ /\ \A r \in Reqs, out \in Outcomes \ {"images", "keyinvalid"} :
           providerReturn(r, out) =>
             /\ req'[r].pc = "done"
             /\ last' # "InvalidCredential"
             /\ db' = db
      /\ \A r \in Reqs :
           (Answers(r) /\ last' \in {"NotFound", "QuotaExceeded", "NoOutput",
                                     "ProviderError"})
             => db' = db
    ]_vars

\* ------------------------------------------------------------- termination
\* The steps a handler takes after an await on MongoDB or on the storage
\* upload are granted weak fairness, and so is the return of the segment
\* call; the return of the generate/edit provider call is not, because
\* model.generateContent is awaited without a timeout or abort signal.
LiveSpec ==
  /\ Spec
  /\ WF_vars(\E r \in Reqs, up \in Uploads : persist(r, up))
  /\ WF_vars(\E r \in Reqs : increment(r))
  /\ WF_vars(\E r \in Reqs : demote(r))
  /\ WF_vars(\E r \in Reqs, ok \in BOOLEAN : segmentReturn(r, ok))

\* C20: every generate/edit request in flight eventually reaches a terminal
\* state.
C20_EveryRequestEnds ==
  \A r \in Reqs : InFlight(r) ~> (req[r].pc = "done")

====
